---- MODULE Spec2Model ----
(***************************************************************************)
(* Model of merge-claude-code-settings: the library functions              *)
(* isStringArray and mergeSettings (dist/lib.js), and the command line     *)
(* program (index.ts): main, its own mergeSettings and the top-level       *)
(* try/catch.                                                              *)
(*                                                                         *)
(* JavaScript values are tagged records.  Text is a sequence of UTF-16     *)
(* code units, so that the default Array.prototype.sort order and the      *)
(* `${path}\t${c}` template are computed, not assumed.  The nested         *)
(* `permissions` objects live in a heap, because the loop body of          *)
(* mergeSettings shares them by reference with the object it builds.       *)
(***************************************************************************)
EXTENDS Integers, Sequences, FiniteSets, TLC

\* ------------------------------------------------------------------ bounds

\* Largest number of entries of localSettingsRecord.
MaxOverrides == 2

\* Largest length of a sequence handed to isStringArray on its own.
MaxElems == 3

\* ------------------------------------------------------------ text values

\* The code unit of "\t" in the template literal of the audit line.
TAB == 9

\* "a", "ab", "b" as code units.
TextA == <<97>>
TextAB == <<97, 98>>
TextB == <<98>>

\* The key of localSettingsRecord at position j: "/p1", "/p2", ...
PathOf(j) == <<47, 112, 48 + j>>

\* s < t for two strings, by code units (what sort() without a comparator
\* does to strings).
RECURSIVE LexLess(_, _)
LexLess(s, t) ==
    IF t = <<>> THEN FALSE
    ELSE IF s = <<>> THEN TRUE
    ELSE IF Head(s) # Head(t) THEN Head(s) < Head(t)
    ELSE LexLess(Tail(s), Tail(t))

\* ------------------------------------------------------- JavaScript values

\* An element of an array (or of an array-like object): its type tag and,
\* for a string, its text.
Elem(tag, text) == [tag |-> tag, text |-> text]
StrElem(text) == Elem("string", text)

\* A value: tag "array" is a genuine Array, tag "object" a keyed object
\* (its elems are the values under the keys 0, 1, ... when it is array-like).
Val(tag, text, elems) == [tag |-> tag, text |-> text, elems |-> elems]
Undefined == Val("undefined", <<>>, <<>>)
TextVal(text) == Val("string", text, <<>>)
ArrayVal(elems) == Val("array", <<>>, elems)
StrArray(texts) == ArrayVal([i \in 1..Len(texts) |-> StrElem(texts[i])])
TextsOf(value) == [i \in 1..Len(value.elems) |-> value.elems[i].text]

\* typeof i
TypeOf(e) == IF e.tag \in {"null", "array"} THEN "object" ELSE e.tag

\* Array.isArray(value)
ArrayIsArray(value) == value.tag = "array"

\* isStringArray
IsStringArrayDuck(value) ==
    /\ value.tag \in {"array", "object"}
    /\ \A i \in 1..Len(value.elems) : TypeOf(value.elems[i]) = "string"
IsStringArrayAnyArray(value) == ArrayIsArray(value)
IsStringArray(value) ==
    /\ value.tag # "undefined"
    /\ ArrayIsArray(value)
    /\ \A i \in 1..Len(value.elems) : TypeOf(value.elems[i]) = "string"

\* ---------------------------------------------------- objects and the heap

\* The property names met under `permissions`.  "0" is the index key of a
\* one-element array and of a one-character string.
Keys == {"allow", "deny", "0"}

\* A nested object: whether it is an Array, and its own properties (a function
\* from their names).  The heap is a function from the ids of the objects made
\* so far.
Obj(isArray, props) == [isArray |-> isArray, props |-> props]
EmptyObj == Obj(FALSE, <<>>)

\* What a settings object holds under `permissions`:
\*   absent     no such property
\*   undefined  the property is there and holds undefined
\*   null, string (the text "x"), number
\*   ref        a reference to heap[id]
\*   empty      the literal {} of `permissions ?? {}`
Container(tag, id) == [tag |-> tag, id |-> id]

\* A settings object: its other fields ("none": no such field) and
\* `permissions`.
Fields == {"foo", "baz"}
Settings(fields, perm) == [fields |-> fields, perm |-> perm]

\* permissions ?? {}
PermissionsOrEmpty(perm) ==
    IF perm.tag \in {"absent", "undefined", "null"}
    THEN Container("empty", 0)
    ELSE perm

\* Object.keys(p)
ObjectKeys(h, p) ==
    CASE p.tag = "ref" -> DOMAIN h[p.id].props
      [] p.tag = "string" -> {"0"}
      [] OTHER -> {}

\* p[key]
Get(h, p, key) ==
    CASE p.tag = "ref" -> IF key \in DOMAIN h[p.id].props
                          THEN h[p.id].props[key]
                          ELSE Undefined
      [] p.tag = "string" -> IF key = "0" THEN TextVal(<<120>>) ELSE Undefined
      [] OTHER -> Undefined

\* localSettings.permissions as a condition
Truthy(perm) == perm.tag \in {"ref", "string", "number"}

\* ------------------------------------------------------------ mergeSettings

\* Array.from(new Set(xs)): the first occurrence of each text, in order.
RECURSIVE Dedupe(_)
Dedupe(xs) ==
    IF xs = <<>> THEN <<>>
    ELSE LET front == Dedupe(SubSeq(xs, 1, Len(xs) - 1))
             last == xs[Len(xs)]
         IN  IF \E i \in 1..Len(front) : front[i] = last
             THEN front
             ELSE Append(front, last)

\* xs with x put before the first text that is not smaller than it.
RECURSIVE Insert(_, _)
Insert(x, xs) ==
    IF xs = <<>> THEN <<x>>
    ELSE IF LexLess(Head(xs), x) THEN <<Head(xs)>> \o Insert(x, Tail(xs))
    ELSE <<x>> \o xs

\* .sort() of an array of strings.
RECURSIVE Sort(_)
SortNone(xs) == xs
Sort(xs) == IF xs = <<>> THEN <<>> ELSE Insert(Head(xs), Sort(Tail(xs)))

\* permissionsList.map((p) => p[key]).filter(isStringArray).flat()
FlatOfAllow(h, permissionsList, key) ==
    LET texts(i) == LET v == Get(h, permissionsList[i], "allow")
                    IN  IF IsStringArray(v) THEN TextsOf(v) ELSE <<>>
    IN  texts(1) \o texts(2)
Flat(h, permissionsList, key) ==
    LET texts(i) == LET v == Get(h, permissionsList[i], key)
                    IN  IF IsStringArray(v) THEN TextsOf(v) ELSE <<>>
    IN  texts(1) \o texts(2)

\* The value assigned to settings.permissions[key].
MergedListLocalOnly(h, permissionsList, key) ==
    StrArray(Sort(Dedupe(Flat(h, <<Container("empty", 0), permissionsList[2]>>, key))))
MergedListKeepInvalid(h, permissionsList, key) ==
    IF Flat(h, permissionsList, key) = <<>> /\ Get(h, permissionsList[2], key) = Undefined
    THEN Get(h, permissionsList[1], key)
    ELSE StrArray(Sort(Dedupe(Flat(h, permissionsList, key))))
MergedList(h, permissionsList, key) ==
    StrArray(Sort(Dedupe(Flat(h, permissionsList, key))))

\* `${localSettingsPath}\t${c}`
AuditLineNoPath(path, c) == <<TAB>> \o c
AuditLine(path, c) == path \o <<TAB>> \o c

\* The lines pushed to mergedAllowCommands for one entry of the record.
AllowLinesAlways(h, path, localSettings, flag) ==
    LET allowCommands == Get(h, localSettings.perm, "allow")
    IN  IF Truthy(localSettings.perm) /\ IsStringArray(allowCommands)
        THEN [i \in 1..Len(allowCommands.elems) |->
                 AuditLine(path, allowCommands.elems[i].text)]
        ELSE <<>>
AllowLines(h, path, localSettings, flag) ==
    IF flag /\ Truthy(localSettings.perm)
    THEN LET allowCommands == Get(h, localSettings.perm, "allow")
         IN  IF IsStringArray(allowCommands)
             THEN [i \in 1..Len(allowCommands.elems) |->
                      AuditLine(path, allowCommands.elems[i].text)]
             ELSE <<>>
    ELSE <<>>

\* { ...beforeSettings, ...localSettings }
SpreadFirstWins(beforeSettings, localSettings) ==
    Settings([f \in Fields |-> IF beforeSettings.fields[f] # "none"
                               THEN beforeSettings.fields[f]
                               ELSE localSettings.fields[f]],
             IF localSettings.perm.tag # "absent"
             THEN localSettings.perm
             ELSE beforeSettings.perm)
Spread(beforeSettings, localSettings) ==
    Settings([f \in Fields |-> IF localSettings.fields[f] # "none"
                               THEN localSettings.fields[f]
                               ELSE beforeSettings.fields[f]],
             IF localSettings.perm.tag # "absent"
             THEN localSettings.perm
             ELSE beforeSettings.perm)

\* One pass of the body of the loop over Object.entries(localSettingsRecord):
\* the heap and `settings` after it, the lines it pushed, and whether the
\* assignment settings.permissions[key] = ... threw a TypeError (the module is
\* an ES module, hence strict: assigning a property of null, of a string or of
\* a number throws).  freshId is where a `{}` made by the pass is put.
LoopBody(h, beforeSettings, path, localSettings, flag, freshId) ==
    LET lines == AllowLines(h, path, localSettings, flag)
        merged == Spread(beforeSettings, localSettings)
        permissionsList == <<PermissionsOrEmpty(beforeSettings.perm),
                             PermissionsOrEmpty(localSettings.perm)>>
        keys == ObjectKeys(h, permissionsList[1]) \cup ObjectKeys(h, permissionsList[2])
        target == IF merged.perm.tag \in {"absent", "undefined"}
                  THEN Container("ref", freshId)
                  ELSE merged.perm
        old == IF target = merged.perm THEN h[target.id] ELSE EmptyObj
        new == Obj(old.isArray,
                   [k \in DOMAIN old.props \cup keys |->
                       IF k \in keys
                       THEN MergedList(h, permissionsList, k)
                       ELSE old.props[k]])
    IN  IF keys = {}
        THEN [threw |-> FALSE, heap |-> h, settings |-> merged, lines |-> lines]
        ELSE IF target.tag = "ref"
        THEN [threw |-> FALSE,
              heap |-> [id \in DOMAIN h \cup {target.id} |->
                          IF id = target.id THEN new ELSE h[id]],
              settings |-> Settings(merged.fields, target),
              lines |-> lines]
        ELSE [threw |-> TRUE, heap |-> h, settings |-> merged, lines |-> lines]

\* -------------------------------------------------------------------- state

VARIABLES
    settings0,            \* the argument `settings` of the call
    localSettingsRecord,  \* Object.entries(localSettingsRecord): <<[path, settings]>>
    showAllowCommands,    \* the argument showAllowCommands
    heap0,                \* every nested object as it was before the first call
    heap,                 \* every nested object as it is now
    settings,             \* the variable `settings` of mergeSettings
    settingsIsNew,        \* whether `settings` is an object made by this call
    idx,                  \* the entries of the record the loop has gone through
    mergedAllowCommands,  \* the array mergedAllowCommands
    pc,                   \* "loop", "done" (returned) or "threw" (TypeError)
    call,                 \* 1, or 2 for a second call on the same objects
    guardValue,           \* the argument of a call of isStringArray on its own
    guardResult,          \* what it returned: "unset", "true" or "false"
    claudeJSONFile,       \* ~/.claude.json: what reading and parsing it gives
    localSettingsFiles,   \* <project>/.claude/settings.local.json, in registry order
    settingsFile,         \* ~/.claude/settings.json as it is on disk
    settingsFile0,        \* ~/.claude/settings.json as it was when the run began
    bakFile,              \* ~/.claude/settings.json.bak as it is on disk
    stdout,               \* the lines written by console.log
    thrown,               \* the error main has thrown, "none" when it has not
    exitCode,             \* the exit code of the process
    cliPc                 \* where the run of index.ts is

vars == <<settings0, localSettingsRecord, showAllowCommands, heap0, heap,
          settings, settingsIsNew, idx, mergedAllowCommands, pc, call,
          guardValue, guardResult,
          claudeJSONFile, localSettingsFiles, settingsFile, settingsFile0,
          bakFile, stdout, thrown, exitCode, cliPc>>

cliVars == <<claudeJSONFile, localSettingsFiles, settingsFile, settingsFile0,
             bakFile, stdout, thrown, exitCode, cliPc>>

mergeVars == <<settings0, localSettingsRecord, showAllowCommands, heap0, heap,
               settings, settingsIsNew, idx, mergedAllowCommands, pc, call>>

guardVars == <<guardValue, guardResult>>

\* The ids of the heap: 0 (of the base) and 1..MaxOverrides (of the record's
\* entries) are for the arguments' `permissions`, SecondBaseId for the base of
\* a second call, and FreshId(c, j) for the `{}` that pass j of call c may make.
SecondBaseId == MaxOverrides + 1
FreshId(c, j) == (IF c = 1 THEN MaxOverrides + 1 ELSE 2 * MaxOverrides + 1) + j

\* ------------------------------------------------------------------- inputs

NoFields == [f \in Fields |-> "none"]

\* What the arguments hold under a permission kind: nothing, a list (empty,
\* unsorted, with a duplicate), a text (as `defaultMode` is), a list with a
\* number in it.
AllowValues ==
    { Undefined,
      StrArray(<<>>),
      StrArray(<<TextB, TextAB>>),
      StrArray(<<TextA, TextA>>),
      TextVal(<<115>>),
      ArrayVal(<<StrElem(TextA), Elem("number", <<>>)>>) }
DenyValues == { Undefined, StrArray(<<TextB>>) }

\* `permissions` of an argument: the tag of what is there and, for an object,
\* the object (a mapping of kinds, or the array ["a"]).
Mapping(a, d) ==
    LET given == IF a = Undefined THEN {} ELSE {"allow"}
        givenToo == IF d = Undefined THEN {} ELSE {"deny"}
    IN  Obj(FALSE, [k \in given \cup givenToo |-> IF k = "allow" THEN a ELSE d])
MappingObjs == { Mapping(a, d) : a \in AllowValues, d \in DenyValues }
ArrayObjs == { Obj(TRUE, [k \in {"0"} |-> TextVal(TextA)]) }
Shape(fields, tag, obj) == [fields |-> fields, tag |-> tag, obj |-> obj]
PermShapes ==
    { Shape(NoFields, t, EmptyObj) :
        t \in {"absent", "undefined", "null", "string", "number"} }
    \cup { Shape(NoFields, "ref", o) : o \in MappingObjs \cup ArrayObjs }
FieldShapes ==
    { Shape(fs, t[1], t[2]) :
        fs \in [Fields -> {"none", "x", "y"}],
        t \in { <<"absent", EmptyObj>>,
                <<"ref", Mapping(StrArray(<<TextB, TextAB>>), Undefined)>> } }

\* The settings object of a shape whose nested object is heap[id].
SettingsOf(shape, id) == Settings(shape.fields, Container(shape.tag, id))

\* The arguments of a call: a base and a record of the given shapes, each
\* with a nested object of its own.
Arguments(base, locals, flag) ==
    /\ settings0 = SettingsOf(base, 0)
    /\ localSettingsRecord =
          [j \in 1..Len(locals) |->
              [path |-> PathOf(j), settings |-> SettingsOf(locals[j], j)]]
    /\ showAllowCommands = flag
    /\ heap0 = [id \in {j \in 0..Len(locals) :
                            (IF j = 0 THEN base ELSE locals[j]).tag = "ref"} |->
                   IF id = 0 THEN base.obj ELSE locals[id].obj]
    /\ heap = heap0
    /\ call = 1

\* mergeSettings is entered: mergedAllowCommands = [] and `settings` is the
\* argument itself.
EnteredFromEmpty ==
    /\ settings = Settings(NoFields, Container("absent", 0))
    /\ settingsIsNew = TRUE
    /\ idx = 0
    /\ mergedAllowCommands = <<>>
    /\ pc = "loop"
Entered ==
    /\ settings = settings0
    /\ settingsIsNew = FALSE
    /\ idx = 0
    /\ mergedAllowCommands = <<>>
    /\ pc = "loop"

GuardIdle == guardValue = Undefined /\ guardResult = "unset"

\* A file: "missing", "unreadable" (it is there, readFileSync throws),
\* "invalid" (JSON.parse throws) or "ok" with the JSON document it holds.
File(status, doc) == [status |-> status, doc |-> doc]
NoDoc == Shape(NoFields, "absent", EmptyObj)
NoFile == File("missing", NoDoc)

\* index.ts is not run.
CliIdle ==
    /\ claudeJSONFile = "unreadable"
    /\ localSettingsFiles = <<>>
    /\ settingsFile = NoFile
    /\ settingsFile0 = NoFile
    /\ bakFile = NoFile
    /\ stdout = <<>>
    /\ thrown = "none"
    /\ exitCode = 0
    /\ cliPc = "off"

InitOver(bases, shapes) ==
    /\ \E base \in bases, n \in 0..MaxOverrides, flag \in BOOLEAN :
          \E locals \in [1..n -> shapes] : Arguments(base, locals, flag)
    /\ Entered
    /\ GuardIdle
    /\ CliIdle

Init == InitOver(PermShapes, PermShapes)

\* ------------------------------------------------------------------ actions

\* One pass of `for (const [localSettingsPath, localSettings] of
\* Object.entries(localSettingsRecord))`.
LoopStep ==
    /\ pc = "loop"
    /\ idx < Len(localSettingsRecord)
    /\ LET entry == localSettingsRecord[idx + 1]
           r == LoopBody(heap, settings, entry.path, entry.settings,
                         showAllowCommands, FreshId(call, idx + 1))
       IN  IF r.threw
           THEN /\ pc' = "threw"
                /\ UNCHANGED <<heap, settings, settingsIsNew, mergedAllowCommands>>
           ELSE /\ pc' = "loop"
                /\ heap' = r.heap
                /\ settings' = r.settings
                /\ settingsIsNew' = TRUE
                /\ mergedAllowCommands' = mergedAllowCommands \o r.lines
    /\ idx' = idx + 1
    /\ UNCHANGED <<settings0, localSettingsRecord, showAllowCommands, heap0, call>>
    /\ UNCHANGED guardVars
    /\ UNCHANGED cliVars

\* return { settings, mergedAllowCommands }
Return ==
    /\ pc = "loop"
    /\ idx = Len(localSettingsRecord)
    /\ pc' = "done"
    /\ UNCHANGED <<settings0, localSettingsRecord, showAllowCommands, heap0, heap,
                   settings, settingsIsNew, idx, mergedAllowCommands, call>>
    /\ UNCHANGED guardVars
    /\ UNCHANGED cliVars

Next == LoopStep \/ Return

Spec == Init /\ [][Next]_vars

InitFields == InitOver(FieldShapes, FieldShapes)

\* The same loop, over settings that differ in their other fields.
SpecFields == InitFields /\ [][Next]_vars

\* mergeSettings as a function of the heap and its arguments: the loop run
\* from entry j of the record to the end, and the return.
RECURSIVE RunLoop(_, _, _, _, _, _)
RunLoop(h, s, record, j, flag, lines) ==
    IF j > Len(record)
    THEN [threw |-> FALSE, heap |-> h, settings |-> s, lines |-> lines]
    ELSE LET r == LoopBody(h, s, record[j].path, record[j].settings, flag, FreshId(2, j))
         IN  IF r.threw
             THEN r
             ELSE RunLoop(r.heap, r.settings, record, j + 1, flag, lines \o r.lines)
MergeSettings(h, s, record, flag) == RunLoop(h, s, record, 1, flag, <<>>)

\* ------------------------------------------------ a second call, same objects

\* The shapes of the arguments of two calls in a row.
TwoCallShapes ==
    { Shape(NoFields, "absent", EmptyObj),
      Shape(NoFields, "ref", Mapping(StrArray(<<TextB, TextAB>>), Undefined)),
      Shape(NoFields, "ref", Mapping(StrArray(<<TextA, TextA>>), StrArray(<<TextB>>))) }

InitTwoCalls == InitOver(TwoCallShapes, TwoCallShapes)

\* After the first call has returned, the caller calls mergeSettings again with
\* another base, an object of its own, and the same record: the very objects
\* the first call was given.
CallAgain ==
    /\ pc = "done"
    /\ call = 1
    /\ \E base \in TwoCallShapes :
          /\ settings0' = SettingsOf(base, SecondBaseId)
          /\ heap0' = IF base.tag = "ref"
                      THEN [id \in DOMAIN heap0 \cup {SecondBaseId} |->
                               IF id = SecondBaseId THEN base.obj ELSE heap0[id]]
                      ELSE heap0
          /\ heap' = IF base.tag = "ref"
                     THEN [id \in DOMAIN heap \cup {SecondBaseId} |->
                              IF id = SecondBaseId THEN base.obj ELSE heap[id]]
                     ELSE heap
    /\ call' = 2
    /\ settings' = settings0'
    /\ settingsIsNew' = FALSE
    /\ idx' = 0
    /\ mergedAllowCommands' = <<>>
    /\ pc' = "loop"
    /\ UNCHANGED <<localSettingsRecord, showAllowCommands>>
    /\ UNCHANGED guardVars
    /\ UNCHANGED cliVars

\* After the first call has returned, the caller repeats it on the same
\* argument objects.
RepeatCall ==
    /\ pc = "done"
    /\ call = 1
    /\ call' = 2
    /\ settings' = settings0
    /\ settingsIsNew' = FALSE
    /\ idx' = 0
    /\ mergedAllowCommands' = <<>>
    /\ pc' = "loop"
    /\ UNCHANGED <<settings0, localSettingsRecord, showAllowCommands, heap0, heap>>
    /\ UNCHANGED guardVars
    /\ UNCHANGED cliVars

NextTwoCalls == LoopStep \/ Return \/ CallAgain \/ RepeatCall

SpecTwoCalls == InitTwoCalls /\ [][NextTwoCalls]_vars

\* ------------------------------------------------- isStringArray on its own

\* The values isStringArray is called with: undefined, null, a text, a number,
\* a boolean, and arrays and keyed objects ({0: .., 1: .., length: n}; {} when
\* n = 0) of up to MaxElems elements of every type.
GuardElems ==
    { StrElem(TextA), StrElem(<<>>) }
    \cup { Elem(t, <<>>) : t \in {"number", "boolean", "null", "undefined", "object", "array"} }
ElemSeqs == UNION { [1..n -> GuardElems] : n \in 0..MaxElems }
GuardValues ==
    { Val(t, <<>>, <<>>) : t \in {"undefined", "null", "number", "boolean"} }
    \cup { TextVal(TextA) }
    \cup { Val(t, <<>>, es) : t \in {"array", "object"}, es \in ElemSeqs }

InitGuard ==
    /\ Arguments(Shape(NoFields, "absent", EmptyObj), <<>>, FALSE)
    /\ Entered
    /\ guardValue \in GuardValues
    /\ guardResult = "unset"
    /\ CliIdle

\* isStringArray(guardValue) is called and returns.
CallIsStringArray ==
    /\ guardResult = "unset"
    /\ guardResult' = IF IsStringArray(guardValue) THEN "true" ELSE "false"
    /\ UNCHANGED guardValue
    /\ UNCHANGED mergeVars
    /\ UNCHANGED cliVars

NextGuard == CallIsStringArray

SpecGuard == InitGuard /\ [][NextGuard]_vars

\* ------------------------------------------------------ the CLI (index.ts)

\* Largest number of projects in ~/.claude.json.
MaxProjects == 2

\* join(projectPath, ".claude", "settings.local.json") for the j-th key of
\* claudeJSON.projects.
LocalSettingsPath(j) ==
    PathOf(j) \o <<47, 46, 99, 108, 97, 117, 100, 101, 47, 115, 101, 116, 116, 105, 110, 103, 115, 46, 108, 111, 99, 97, 108, 46, 106, 115, 111, 110>>

\* The JSON documents met in the settings files: {}, {"foo": "x"},
\* {"permissions": null}, mappings of kinds (one with a text where a list is
\* meant) and the array ["a"].
CliDocs ==
    { NoDoc,
      Shape([f \in Fields |-> IF f = "foo" THEN "x" ELSE "none"], "absent", EmptyObj),
      Shape(NoFields, "null", EmptyObj),
      Shape(NoFields, "ref", Mapping(StrArray(<<TextB, TextAB>>), Undefined)),
      Shape(NoFields, "ref", Mapping(StrArray(<<TextA, TextA>>), StrArray(<<TextB>>))),
      Shape(NoFields, "ref", Mapping(TextVal(<<115>>), Undefined)) }
    \cup { Shape(NoFields, "ref", o) : o \in ArrayObjs }

\* JSON.parse(readFileSync(path, "utf-8")) inside its try block: "parsed", or
\* "throw" when either call throws.
ParseOutcomeOrDefault(file) == "parsed"
ParseOutcome(file) == IF file.status = "ok" THEN "parsed" ELSE "throw"

\* What the loop of main does with the local settings file of a project:
\* `continue` when existsSync says no, throw when reading or parsing fails,
\* print and merge otherwise.
LocalSettingsOutcomeLenient(file) ==
    IF file.status = "ok" THEN "merge" ELSE "continue"
LocalSettingsOutcome(file) ==
    IF file.status = "missing" THEN "continue"
    ELSE IF ParseOutcome(file) = "throw" THEN "throw"
    ELSE "merge"

\* The heap with the object a parsed document holds under `permissions`, put
\* at id.
Parsed(h, doc, id) ==
    IF doc.tag = "ref"
    THEN [i \in DOMAIN h \cup {id} |-> IF i = id THEN doc.obj ELSE h[i]]
    ELSE h

\* The lines main prints for one local settings file.
PrintedLines(h, path, localSettings, flag) ==
    IF flag /\ Truthy(localSettings.perm)
    THEN LET allowCommands == Get(h, localSettings.perm, "allow")
         IN  IF IsStringArray(allowCommands)
             THEN [i \in 1..Len(allowCommands.elems) |->
                      path \o <<TAB>> \o allowCommands.elems[i].text]
             ELSE <<>>
    ELSE <<>>

\* The inner loops of mergeSettings of index.ts: permissionSet after the
\* commands of both permissions have been added, in order.
PermissionSetLocalOnly(h, permissionsList, key) ==
    LET commands == Get(h, permissionsList[2], key)
    IN  IF ~IsStringArray(commands) THEN <<>> ELSE Dedupe(TextsOf(commands))
PermissionSet(h, permissionsList, key) ==
    LET commands(i) == Get(h, permissionsList[i], key)
        added(i) == IF ~IsStringArray(commands(i)) THEN <<>> ELSE TextsOf(commands(i))
    IN  Dedupe(added(1) \o added(2))

\* mergeSettings of index.ts: the heap and the merged settings, and whether
\* the assignment mergedSettings.permissions[key] = ... threw a TypeError.
CliMergeSettings(h, s, localSettings, freshId) ==
    LET mergedSettings == Spread(s, localSettings)
        permissionsList == <<PermissionsOrEmpty(s.perm),
                             PermissionsOrEmpty(localSettings.perm)>>
        keys == ObjectKeys(h, permissionsList[1]) \cup ObjectKeys(h, permissionsList[2])
        target == IF mergedSettings.perm.tag \in {"absent", "undefined"}
                  THEN Container("ref", freshId)
                  ELSE mergedSettings.perm
        old == IF target = mergedSettings.perm THEN h[target.id] ELSE EmptyObj
        new == Obj(old.isArray,
                   [k \in DOMAIN old.props \cup keys |->
                       IF k \in keys
                       THEN StrArray(Sort(PermissionSet(h, permissionsList, k)))
                       ELSE old.props[k]])
    IN  IF keys = {}
        THEN [threw |-> FALSE, heap |-> h, settings |-> mergedSettings]
        ELSE IF target.tag = "ref"
        THEN [threw |-> FALSE,
              heap |-> [id \in DOMAIN h \cup {target.id} |->
                          IF id = target.id THEN new ELSE h[id]],
              settings |-> Settings(mergedSettings.fields, target)]
        ELSE [threw |-> TRUE, heap |-> h, settings |-> mergedSettings]

\* JSON.stringify(settings, null, 2), as the document a later JSON.parse of
\* it gives: a property holding undefined is left out, and of an Array only
\* the elements are written, not the properties added to it.
JsonStringify(h, s) ==
    IF s.perm.tag = "undefined" THEN Shape(s.fields, "absent", EmptyObj)
    ELSE IF s.perm.tag # "ref" THEN Shape(s.fields, s.perm.tag, EmptyObj)
    ELSE LET o == h[s.perm.id]
             written == IF o.isArray THEN DOMAIN o.props \cap {"0"}
                        ELSE {k \in DOMAIN o.props : o.props[k] # Undefined}
         IN  Shape(s.fields, "ref", Obj(o.isArray, [k \in written |-> o.props[k]]))

\* Object.keys(claudeJSON.projects ?? {}): the number of projects.
Projects ==
    IF claudeJSONFile = "projects" THEN Len(localSettingsFiles) ELSE 0

\* The ids of the heap of a run: 0 for the parsed global settings, j for the
\* parsed local settings of project j, CliFreshId(j) for the `{}` that the
\* merge of project j may make.
CliFreshId(j) == MaxProjects + j

\* The process starts: the files are as the user left them, no backup file is
\* there, and argv holds the flag.
InitCli ==
    /\ \E n \in 0..MaxProjects :
          /\ localSettingsFiles \in
                [1..n -> { File(st, NoDoc) : st \in {"missing", "unreadable", "invalid"} }
                         \cup { File("ok", d) : d \in CliDocs }]
          /\ claudeJSONFile \in
                IF n = 0 THEN {"unreadable", "invalid", "noProjects", "projects"}
                ELSE {"projects"}
    /\ settingsFile \in { File(st, NoDoc) : st \in {"missing", "invalid"} }
                        \cup { File("ok", d) : d \in CliDocs }
    /\ settingsFile0 = settingsFile
    /\ bakFile = NoFile
    /\ showAllowCommands \in BOOLEAN
    /\ stdout = <<>>
    /\ thrown = "none"
    /\ exitCode = 0
    /\ cliPc = "main"
    /\ Arguments(NoDoc, <<>>, showAllowCommands)
    /\ Entered
    /\ GuardIdle

idleVars == <<settings0, localSettingsRecord, heap0, settingsIsNew,
              mergedAllowCommands, pc, call, guardValue, guardResult>>

\* claudeJSON = JSON.parse(readFileSync(claudeJSONPath, "utf-8")), and the
\* throw of its catch block.
ReadClaudeJSON ==
    /\ cliPc = "main"
    /\ IF claudeJSONFile \in {"unreadable", "invalid"}
       THEN thrown' = "claudeJSON" /\ cliPc' = "catch"
       ELSE thrown' = thrown /\ cliPc' = "settings"
    /\ UNCHANGED <<claudeJSONFile, localSettingsFiles, settingsFile, settingsFile0,
                   bakFile, stdout, exitCode>>
    /\ UNCHANGED <<showAllowCommands, heap, settings, idx>>
    /\ UNCHANGED idleVars

\* settings = JSON.parse(readFileSync(settingsPath, "utf-8")), and the throw
\* of its catch block.
ReadSettings ==
    /\ cliPc = "settings"
    /\ IF ParseOutcome(settingsFile) = "throw"
       THEN /\ thrown' = "settings"
            /\ cliPc' = "catch"
            /\ UNCHANGED <<heap, settings>>
       ELSE /\ thrown' = thrown
            /\ cliPc' = "projects"
            /\ heap' = Parsed(heap, settingsFile.doc, 0)
            /\ settings' = SettingsOf(settingsFile.doc, 0)
    /\ UNCHANGED <<claudeJSONFile, localSettingsFiles, settingsFile, settingsFile0,
                   bakFile, stdout, exitCode>>
    /\ UNCHANGED <<showAllowCommands, idx>>
    /\ UNCHANGED idleVars

\* One pass of `for (const projectPath of Object.keys(claudeJSON.projects ?? {}))`.
ProjectStep ==
    /\ cliPc = "projects"
    /\ idx < Projects
    /\ LET j == idx + 1
           file == localSettingsFiles[j]
           outcome == LocalSettingsOutcome(file)
           localSettings == SettingsOf(file.doc, j)
           parsed == Parsed(heap, file.doc, j)
           r == CliMergeSettings(parsed, settings, localSettings, CliFreshId(j))
       IN  CASE outcome = "continue" ->
                  /\ cliPc' = "projects"
                  /\ UNCHANGED <<heap, settings, stdout, thrown>>
             [] outcome = "throw" ->
                  /\ cliPc' = "catch"
                  /\ thrown' = "localSettings"
                  /\ UNCHANGED <<heap, settings, stdout>>
             [] outcome = "merge" ->
                  /\ stdout' = stdout \o PrintedLines(parsed, LocalSettingsPath(j),
                                                      localSettings, showAllowCommands)
                  /\ IF r.threw
                     THEN /\ cliPc' = "catch"
                          /\ thrown' = "TypeError"
                          /\ heap' = parsed
                          /\ UNCHANGED settings
                     ELSE /\ cliPc' = "projects"
                          /\ heap' = r.heap
                          /\ settings' = r.settings
                          /\ UNCHANGED thrown
    /\ idx' = idx + 1
    /\ UNCHANGED <<claudeJSONFile, localSettingsFiles, settingsFile, settingsFile0,
                   bakFile, exitCode>>
    /\ UNCHANGED showAllowCommands
    /\ UNCHANGED idleVars

\* writeFileSync(settingsPath, JSON.stringify(settings, null, 2)) after the
\* loop, and the throw of its catch block.  A write that fails leaves the file
\* as it was (it could not be opened) or cut short (it was opened, and so
\* emptied, and then not written in full).
WriteSettings ==
    /\ cliPc = "projects"
    /\ idx = Projects
    /\ \/ /\ settingsFile' = File("ok", JsonStringify(heap, settings))
          /\ cliPc' = "return"
          /\ UNCHANGED thrown
       \/ /\ settingsFile' \in {settingsFile, File("invalid", NoDoc)}
          /\ thrown' = "write"
          /\ cliPc' = "catch"
    /\ UNCHANGED <<claudeJSONFile, localSettingsFiles, settingsFile0, bakFile,
                   stdout, exitCode>>
    /\ UNCHANGED <<showAllowCommands, heap, settings, idx>>
    /\ UNCHANGED idleVars

\* main has returned: the process ends, process.exitCode never set.
MainReturns ==
    /\ cliPc = "return"
    /\ cliPc' = "exit"
    /\ UNCHANGED <<claudeJSONFile, localSettingsFiles, settingsFile, settingsFile0,
                   bakFile, stdout, thrown, exitCode>>
    /\ UNCHANGED <<showAllowCommands, heap, settings, idx>>
    /\ UNCHANGED idleVars

\* The catch block around main(argv.showAllowCommands): console.error and
\* process.exitCode = 1.
CatchError ==
    /\ cliPc = "catch"
    /\ exitCode' = 1
    /\ cliPc' = "exit"
    /\ UNCHANGED <<claudeJSONFile, localSettingsFiles, settingsFile, settingsFile0,
                   bakFile, stdout, thrown>>
    /\ UNCHANGED <<showAllowCommands, heap, settings, idx>>
    /\ UNCHANGED idleVars

NextCli ==
    ReadClaudeJSON \/ ReadSettings \/ ProjectStep \/ WriteSettings
        \/ MainReturns \/ CatchError

SpecCli == InitCli /\ [][NextCli]_vars

\* ------------------------------------------------------------------- claims

\* What the call returned.
Returned == pc = "done"

\* Strings in ascending lexicographic order of their code units: s comes
\* strictly before t.
LexBefore(s, t) ==
    \E i \in 1..(Len(t)) :
        /\ \A j \in 1..(i - 1) : j <= Len(s) /\ s[j] = t[j]
        /\ i > Len(s) \/ (i <= Len(s) /\ s[i] < t[i])

\* The kinds of the returned `permissions`, and the value of one.
ResultKinds ==
    IF settings.perm.tag = "ref" THEN ObjectKeys(heap, settings.perm) ELSE {}
ResultValue(k) == Get(heap, settings.perm, k)

\* A value is a sequence of texts, ascending and hence without a duplicate.
SortedUnique(value) ==
    /\ value.tag = "array"
    /\ \A i \in 1..Len(value.elems) : value.elems[i].tag = "string"
    /\ \A i, j \in 1..Len(value.elems) :
          i < j => LexBefore(value.elems[i].text, value.elems[j].text)

\* The sources of the call: 0 is the base, j the j-th entry of the record.
Sources == 0..Len(localSettingsRecord)
SourceSettings(j) == IF j = 0 THEN settings0 ELSE localSettingsRecord[j].settings

\* The texts of the list source j gave for kind k when the call was made, if
\* that value passes the type guard.
SourceTexts(j, k) ==
    LET v == Get(heap0, SourceSettings(j).perm, k)
    IN  IF IsStringArray(v) THEN {v.elems[i].text : i \in 1..Len(v.elems)} ELSE {}

\* How often a text occurs in the returned list of kind k.
Occurrences(k, text) ==
    LET v == ResultValue(k)
    IN  Cardinality({i \in 1..Len(v.elems) :
                        v.elems[i] = StrElem(text) /\ v.tag = "array"})

\* C1 as stated: whatever the record, the empty one included, every kind of
\* the returned `permissions` holds a sorted sequence of texts without
\* duplicates.
C1_SortedUniqueAlways ==
    Returned => \A k \in ResultKinds : SortedUnique(ResultValue(k))

\* C1 amended: once the loop has gone through at least one entry of the record,
\* every kind of the returned `permissions` holds a sorted sequence of texts
\* without duplicates (an empty record returns the base's lists as they are).
C1_SortedUniqueAfterFold ==
    (Returned /\ idx >= 1) => \A k \in ResultKinds : SortedUnique(ResultValue(k))

\* C1 witness: two entries were folded and the returned "allow" is
\* <<"a", "ab", "b">>, made of an unsorted list and a list with a duplicate.
C1_Witness ==
    /\ Returned
    /\ idx = 2
    /\ ResultValue("allow") = StrArray(<<TextA, TextAB, TextB>>)

\* C2 as stated: every text of a valid list of kind k of the base or of an
\* override occurs exactly once in the returned permissions[k], whatever the
\* number of overrides.
C2_EveryEntryExactlyOnce ==
    Returned =>
        \A k \in Keys : \A j \in Sources : \A text \in SourceTexts(j, k) :
            Occurrences(k, text) = 1

\* C2 amended: every such text occurs in the returned permissions[k], and
\* exactly once when the record is not empty (an empty record returns the
\* base's lists with their duplicates).
C2_EveryEntryKept ==
    Returned =>
        \A k \in Keys : \A j \in Sources : \A text \in SourceTexts(j, k) :
            /\ Occurrences(k, text) >= 1
            /\ idx >= 1 => Occurrences(k, text) = 1

\* C2 witness: the base alone gave "ab" for "allow", two overrides with valid
\* "allow" lists of their own were folded, and "ab" is in the result.
C2_Witness ==
    /\ Returned
    /\ idx = 2
    /\ TextAB \in SourceTexts(0, "allow")
    /\ SourceTexts(1, "allow") = {TextA}
    /\ SourceTexts(2, "allow") = {TextA}
    /\ Occurrences("allow", TextAB) = 1

\* C3: after the call has returned, the nested `permissions` object of the
\* base and of every override is as it was before the call (the first half of
\* the claim; settingsIsNew records the second, that the result is a new
\* object).
C3_InputsNotMutated ==
    Returned => \A id \in DOMAIN heap0 : heap[id] = heap0[id]

\* C4: the call never throws, whatever the shape of `permissions`.
C4_NeverThrows == pc # "threw"

\* The value of field f in the last source, in fold order, that defines it.
RECURSIVE LastWriter(_, _)
LastWriter(f, j) ==
    IF j = 0 \/ SourceSettings(j).fields[f] # "none"
    THEN SourceSettings(j).fields[f]
    ELSE LastWriter(f, j - 1)

\* C5: every field other than `permissions` of the returned configuration has
\* the value of the last override, in fold order, that defines it, or the
\* base's value when no override defines it.
C5_LastWriteWins ==
    Returned => \A f \in Fields :
        settings.fields[f] = LastWriter(f, Len(localSettingsRecord))

\* C5 witness: the base and two overrides define "foo", the overrides with
\* different values, and "baz" is defined by the first override alone.
C5_Witness ==
    /\ Returned
    /\ idx = 2
    /\ settings0.fields["foo"] = "x"
    /\ localSettingsRecord[1].settings.fields["foo"] = "x"
    /\ localSettingsRecord[2].settings.fields["foo"] = "y"
    /\ settings0.fields["baz"] = "none"
    /\ localSettingsRecord[1].settings.fields["baz"] = "y"
    /\ localSettingsRecord[2].settings.fields["baz"] = "none"
    /\ settings.fields = [f \in Fields |-> "y"]

\* C6: with an empty record the call returns the base as it is, nested
\* objects included, and an empty audit trail.
C6_EmptyRecordIsIdentity ==
    (Returned /\ localSettingsRecord = <<>>) =>
        /\ settings = settings0
        /\ \A id \in DOMAIN heap0 : heap[id] = heap0[id]
        /\ mergedAllowCommands = <<>>

\* C6 witness: an empty record and a base whose "allow" is an unsorted list.
C6_Witness ==
    /\ Returned
    /\ localSettingsRecord = <<>>
    /\ showAllowCommands
    /\ ResultValue("allow") = StrArray(<<TextB, TextAB>>)

\* The lines override j stands for: one `path<TAB>entry` for each element of
\* its own "allow" list as it was when the call was made, in that order.
OwnAllowLines(j) ==
    LET perm == localSettingsRecord[j].settings.perm
        own == IF perm.tag = "ref" /\ "allow" \in DOMAIN heap0[perm.id].props
               THEN heap0[perm.id].props["allow"]
               ELSE Undefined
    IN  IF own.tag = "array" /\ \A i \in 1..Len(own.elems) : own.elems[i].tag = "string"
        THEN [i \in 1..Len(own.elems) |->
                 localSettingsRecord[j].path \o <<TAB>> \o own.elems[i].text]
        ELSE <<>>
RECURSIVE TrailUpTo(_)
TrailUpTo(j) == IF j = 0 THEN <<>> ELSE TrailUpTo(j - 1) \o OwnAllowLines(j)

\* C7: with showAllowCommands the returned audit trail is the concatenation,
\* in fold order, of the lines of each override's own valid "allow" list, in
\* the list's order and with its duplicates; nothing else makes a line.
C7_AuditTrailIsOwnAllowLists ==
    (Returned /\ showAllowCommands) =>
        mergedAllowCommands = TrailUpTo(Len(localSettingsRecord))

\* C7 witness: the base has "allow" and "deny" entries, the first override an
\* unsorted "allow" list and a "deny" list, the second an "allow" list with a
\* duplicate; the trail has the four lines of the two "allow" lists.
C7_Witness ==
    /\ Returned
    /\ showAllowCommands
    /\ idx = 2
    /\ SourceTexts(0, "allow") = {TextA}
    /\ SourceTexts(0, "deny") = {TextB}
    /\ SourceTexts(1, "deny") = {TextB}
    /\ mergedAllowCommands =
          << PathOf(1) \o <<TAB>> \o TextB, PathOf(1) \o <<TAB>> \o TextAB,
             PathOf(2) \o <<TAB>> \o TextA, PathOf(2) \o <<TAB>> \o TextA >>

\* C8: without showAllowCommands the returned audit trail is empty.
C8_NoTrailWhenDisabled ==
    (Returned /\ ~showAllowCommands) => mergedAllowCommands = <<>>

\* C8 witness: the flag is off and both overrides have a valid, non-empty
\* "allow" list.
C8_Witness ==
    /\ Returned
    /\ ~showAllowCommands
    /\ idx = 2
    /\ SourceTexts(1, "allow") # {}
    /\ SourceTexts(2, "allow") # {}

\* What a heap and a settings object hold under `permissions`, by value.
PermissionsView(h, s) ==
    IF s.perm.tag = "ref"
    THEN [tag |-> "ref", obj |-> h[s.perm.id]]
    ELSE [tag |-> s.perm.tag, obj |-> EmptyObj]

\* The second call run alone: on its base and on the record's objects as they
\* were made, before any call.
Alone == MergeSettings(heap0, settings0, localSettingsRecord, showAllowCommands)

\* C9: a second call on the same override objects returns the permissions and
\* the audit trail it would return when run alone on fresh copies of its
\* arguments.
C9_SecondCallAsAlone ==
    (Returned /\ call = 2) =>
        /\ ~Alone.threw
        /\ PermissionsView(heap, settings) = PermissionsView(Alone.heap, Alone.settings)
        /\ mergedAllowCommands = Alone.lines

\* A genuine sequence all of whose elements are texts.
GenuineTextSequence(value) ==
    /\ value.tag = "array"
    /\ \A i \in 1..Len(value.elems) : value.elems[i].tag = "string"

\* C10: isStringArray returns true exactly for a genuine sequence all of whose
\* elements are texts: true for the empty sequence, false for undefined, null,
\* a text, a number, a boolean, a keyed object (array-like or not) and a
\* sequence with a non-text element at any position.
C10_GuardIffTextSequence ==
    guardResult # "unset" =>
        /\ guardResult = "true" <=> GenuineTextSequence(guardValue)
        /\ guardValue = ArrayVal(<<>>) => guardResult = "true"
        /\ guardValue.tag \in {"undefined", "null", "string", "number", "boolean", "object"}
              => guardResult = "false"
        /\ (\E i \in 1..Len(guardValue.elems) : guardValue.elems[i].tag # "string")
              => guardResult = "false"

\* C10 witness: the guard has answered false for the keyed object
\* {0: "a", 1: "a", length: 2}, all of whose elements are texts.
C10_Witness ==
    /\ guardResult = "false"
    /\ guardValue = Val("object", <<>>, <<StrElem(TextA), StrElem(TextA)>>)

\* The texts of a set, in ascending order.
SortedSeqOf(S) ==
    CHOOSE s \in [1..Cardinality(S) -> S] :
        /\ {s[i] : i \in 1..Cardinality(S)} = S
        /\ \A i, j \in 1..Cardinality(S) : i < j => LexBefore(s[i], s[j])

\* Source j defined kind k when the call was made, and what it gave for it.
Defines(j, k) == k \in ObjectKeys(heap0, PermissionsOrEmpty(SourceSettings(j).perm))
SourceValue(j, k) == Get(heap0, SourceSettings(j).perm, k)

\* Source j gave for kind k a value that is not a sequence of texts.
PresentInvalid(j, k) == Defines(j, k) /\ ~GenuineTextSequence(SourceValue(j, k))

\* The texts of the sequences of texts that the sources in js gave for kind k.
ValidTexts(js, k) ==
    UNION { {SourceValue(j, k).elems[i].text : i \in 1..Len(SourceValue(j, k).elems)} :
              j \in {i \in js : GenuineTextSequence(SourceValue(i, k))} }

\* No source has null, a text or a number under `permissions`.
PermissionsAreMappings ==
    \A j \in Sources : SourceSettings(j).perm.tag \in {"absent", "undefined", "ref"}

\* C11 as stated: whatever the record, the empty one included, a kind for which
\* a source has a value that fails the type guard is returned as the sorted
\* list, without duplicates, of the texts of the valid lists of the other
\* sources, and such a value makes no call throw.
C11_InvalidValueIgnoredAlways ==
    /\ PermissionsAreMappings => pc # "threw"
    /\ Returned =>
          \A k \in Keys : \A j \in Sources :
              PresentInvalid(j, k) =>
                  ResultValue(k) = StrArray(SortedSeqOf(ValidTexts(Sources \ {j}, k)))

\* C11 amended: the same once the loop has gone through at least one entry of
\* the record (with an empty record the base's invalid value is returned as it
\* is).
C11_InvalidValueIgnored ==
    /\ PermissionsAreMappings => pc # "threw"
    /\ (Returned /\ idx >= 1) =>
          \A k \in Keys : \A j \in Sources :
              PresentInvalid(j, k) =>
                  ResultValue(k) = StrArray(SortedSeqOf(ValidTexts(Sources \ {j}, k)))

\* C11 witness: the first override's "allow" is a list with a number in it,
\* the base before it and the second override after it have valid lists, and
\* the returned "allow" is the union of these two.
C11_Witness ==
    /\ Returned
    /\ idx = 2
    /\ PresentInvalid(1, "allow")
    /\ SourceValue(1, "allow").tag = "array"
    /\ SourceValue(0, "allow") = StrArray(<<TextB, TextAB>>)
    /\ SourceValue(2, "allow") = StrArray(<<TextA, TextA>>)
    /\ ResultValue("allow") = StrArray(<<TextA, TextAB, TextB>>)

\* writeFileSync(settingsPath, ...) has been called in this run.
WriteReached ==
    \/ cliPc = "return"
    \/ cliPc = "exit" /\ thrown = "none"
    \/ thrown = "write"

\* C12: in every run that writes the merged settings to
\* ~/.claude/settings.json, a copy of the previous global settings has been
\* made at ~/.claude/settings.json.bak before that write.
C12_BackupBeforeWrite ==
    WriteReached => bakFile = File("ok", settingsFile0.doc)

\* The project registry, the global settings file or a local settings file
\* that is there cannot be read or parsed.
ReadFails ==
    \/ claudeJSONFile \in {"unreadable", "invalid"}
    \/ settingsFile0.status # "ok"
    \/ \E j \in 1..Projects : localSettingsFiles[j].status \in {"unreadable", "invalid"}

\* C13: when reading or parsing the registry, the global settings file or a
\* found local settings file fails, or a merge throws, the global settings
\* file is never written and stays as it was, and the run ends with the error;
\* writeFileSync is reached only after every project has been gone through
\* with every read and every merge done.
C13_NoWriteAfterFailedRead ==
    /\ (ReadFails \/ thrown \in {"claudeJSON", "settings", "localSettings", "TypeError"})
          => ~WriteReached /\ settingsFile = settingsFile0
    /\ (ReadFails /\ cliPc = "exit") => thrown # "none" /\ exitCode = 1
    /\ WriteReached =>
          /\ idx = Projects
          /\ claudeJSONFile \in {"noProjects", "projects"}
          /\ settingsFile0.status = "ok"
          /\ \A j \in 1..Projects : localSettingsFiles[j].status \in {"missing", "ok"}

\* C13 witness: the first project's local settings were printed and merged,
\* the second project's file is not valid JSON, and the run has ended with the
\* global settings file as it was.
C13_Witness ==
    /\ cliPc = "exit"
    /\ thrown = "localSettings"
    /\ idx = 2
    /\ localSettingsFiles[1].status = "ok"
    /\ localSettingsFiles[2].status = "invalid"
    /\ Len(stdout) = 2
    /\ settings # SettingsOf(settingsFile0.doc, 0)
    /\ settingsFile = settingsFile0

\* A line of stdout is about project j.
LineOf(line, j) ==
    /\ Len(line) > Len(LocalSettingsPath(j))
    /\ SubSeq(line, 1, Len(LocalSettingsPath(j)) + 1) = LocalSettingsPath(j) \o <<TAB>>

\* C14: a pass of the loop over a project whose local settings file does not
\* exist changes neither the settings nor stdout and goes on with the next
\* project, and no line of stdout is ever about such a project; a pass over a
\* local settings file that is there but cannot be read or parsed throws, and
\* the run then ends with exit code 1 and without a write.
C14_MissingSkippedUnparseableFatal ==
    /\ [][(cliPc = "projects" /\ idx < Projects) =>
            LET file == localSettingsFiles[idx + 1]
            IN  /\ file.status = "missing" =>
                      /\ settings' = settings
                      /\ heap' = heap
                      /\ stdout' = stdout
                      /\ thrown' = "none"
                      /\ cliPc' = "projects"
                      /\ idx' = idx + 1
                /\ file.status \in {"unreadable", "invalid"} =>
                      /\ thrown' = "localSettings"
                      /\ cliPc' = "catch"
                      /\ stdout' = stdout]_vars
    /\ [](\A j \in 1..Projects :
             localSettingsFiles[j].status = "missing" =>
                 \A i \in 1..Len(stdout) : ~LineOf(stdout[i], j))
    /\ [](thrown = "localSettings" =>
             /\ ~WriteReached
             /\ cliPc \in {"catch", "exit"}
             /\ cliPc = "exit" => exitCode = 1)

\* C14 witness: the first project has no local settings file, the second has
\* one with a valid "allow" list; the run has written the merged settings and
\* printed the two lines of the second project.
C14_Witness ==
    /\ cliPc = "exit"
    /\ thrown = "none"
    /\ Projects = 2
    /\ localSettingsFiles[1].status = "missing"
    /\ localSettingsFiles[2] =
          File("ok", Shape(NoFields, "ref", Mapping(StrArray(<<TextB, TextAB>>), Undefined)))
    /\ settingsFile0.doc = NoDoc
    /\ settingsFile.doc =
          Shape(NoFields, "ref", Mapping(StrArray(<<TextAB, TextB>>), Undefined))
    /\ stdout = << LocalSettingsPath(2) \o <<TAB>> \o TextB,
                   LocalSettingsPath(2) \o <<TAB>> \o TextAB >>

\* C15: when the process ends, its exit code is not zero exactly when the
\* registry read, the global settings read, a local settings parse or the
\* write of the result failed; it is zero when all of these succeeded.
C15_ExitCodeIffIOError ==
    cliPc = "exit" =>
        (exitCode # 0 <=> thrown \in {"claudeJSON", "settings", "localSettings", "write"})

\* Some source defines kind k, and no source that defines it gave a sequence
\* of texts for it.
InvalidEverywhere(k) ==
    /\ \E j \in Sources : Defines(j, k)
    /\ \A j \in Sources : Defines(j, k) => ~GenuineTextSequence(SourceValue(j, k))

\* C16: once the loop has gone through at least one entry of the record, a
\* kind whose value fails the type guard in every source that defines it is
\* returned as the empty list, the original value replaced, also when the base
\* alone defines it and no override has `permissions`.
C16_InvalidEverywhereBecomesEmpty ==
    (Returned /\ idx >= 1) =>
        \A k \in Keys : InvalidEverywhere(k) => ResultValue(k) = StrArray(<<>>)

\* C16 witness: the base alone has `permissions`, with the text "s" under
\* "allow"; two overrides without `permissions` were folded and "allow" is
\* returned as the empty list.
C16_Witness ==
    /\ Returned
    /\ idx = 2
    /\ SourceValue(0, "allow") = TextVal(<<115>>)
    /\ \A j \in 1..2 : SourceSettings(j).perm.tag = "absent"
    /\ ResultValue("allow") = StrArray(<<>>)

\* The texts the accumulator `settings` holds in its valid list of kind k.
AccTexts(h, s, k) ==
    LET v == Get(h, s.perm, k)
    IN  IF GenuineTextSequence(v) THEN {v.elems[i].text : i \in 1..Len(v.elems)} ELSE {}

\* C17: over every step of the loop and for every kind, each text that was in
\* the accumulator's valid list of that kind before the step is in it after
\* the step, whatever the step's override holds under `permissions`.
C17_EntriesOnlyAccumulate ==
    [][\A k \in Keys : AccTexts(heap, settings, k) \subseteq AccTexts(heap', settings', k)]_vars

\* C17 witness: the base gave "b" and "ab" for "allow"; the first override
\* has `permissions` without "allow", the second has the text "s" under
\* "allow"; both were folded and "allow" still holds "ab" and "b".
C17_Witness ==
    /\ Returned
    /\ idx = 2
    /\ SourceValue(0, "allow") = StrArray(<<TextB, TextAB>>)
    /\ Defines(1, "deny") /\ ~Defines(1, "allow")
    /\ SourceValue(2, "allow") = TextVal(<<115>>)
    /\ ResultValue("allow") = StrArray(<<TextAB, TextB>>)

\* The kinds of the `permissions` of the base and of the overrides.
SourceKinds ==
    UNION { ObjectKeys(heap0, PermissionsOrEmpty(SourceSettings(j).perm)) : j \in Sources }

\* Every element of the returned list of kind k is a text of a valid list of
\* kind k of the base or of an override.
NothingSpurious(k) ==
    LET v == ResultValue(k)
    IN  v.tag = "array" =>
            \A i \in 1..Len(v.elems) :
                /\ v.elems[i].tag = "string"
                /\ v.elems[i].text \in ValidTexts(Sources, k)

\* C18 as stated: whatever the record, the empty one included, every entry of
\* the returned permissions[k] occurs in a valid list of kind k of a source;
\* and after at least one pass the kinds returned are those of the sources.
C18_NothingSpuriousAlways ==
    Returned =>
        /\ \A k \in ResultKinds : NothingSpurious(k)
        /\ idx >= 1 => ResultKinds = SourceKinds

\* C18 amended: both hold once the loop has gone through at least one entry of
\* the record (with an empty record the base's list is returned as it is, the
\* entries of a list that fails the type guard included).
C18_NothingSpurious ==
    (Returned /\ idx >= 1) =>
        /\ \A k \in ResultKinds : NothingSpurious(k)
        /\ ResultKinds = SourceKinds

\* C18 witness: the base has "allow" and "deny" lists, the first override an
\* "allow" list with a number in it, the second an "allow" list only; the
\* returned kinds are "allow" and "deny" and "allow" holds texts of the base
\* and of the second override alone.
C18_Witness ==
    /\ Returned
    /\ idx = 2
    /\ SourceValue(0, "allow") = StrArray(<<TextA, TextA>>)
    /\ SourceValue(0, "deny") = StrArray(<<TextB>>)
    /\ SourceValue(1, "allow").tag = "array" /\ PresentInvalid(1, "allow")
    /\ SourceValue(2, "allow") = StrArray(<<TextB, TextAB>>)
    /\ ~Defines(2, "deny")
    /\ ResultKinds = {"allow", "deny"}
    /\ ResultValue("allow") = StrArray(<<TextA, TextAB, TextB>>)
    /\ ResultValue("deny") = StrArray(<<TextB>>)

\* The record with its entries in another order: entry f[j] at position j.
Orders(n) == {f \in [1..n -> 1..n] : \A i, j \in 1..n : f[i] = f[j] => i = j}
Permuted(record, f) == [j \in 1..Len(record) |-> record[f[j]]]

\* The kinds of the `permissions` a call returned.
KindsOf(h, s) == IF s.perm.tag = "ref" THEN ObjectKeys(h, s.perm) ELSE {}

\* C19: for a record that is not empty, the call made on the same base and on
\* the same overrides in any other order returns as well, with the same kinds
\* and the same list for each kind.
C19_OrderIndependent ==
    (Returned /\ idx >= 1) =>
        \A f \in Orders(Len(localSettingsRecord)) :
            LET r == MergeSettings(heap0, settings0,
                                   Permuted(localSettingsRecord, f), showAllowCommands)
            IN  /\ ~r.threw
                /\ KindsOf(r.heap, r.settings) = ResultKinds
                /\ \A k \in Keys : Get(r.heap, r.settings.perm, k) = ResultValue(k)

\* The returned configuration as the base of another call, on a heap where
\* it has an object of its own and the overrides' objects are as they were
\* made.
AgainBase ==
    Settings(settings.fields,
             IF settings.perm.tag = "ref"
             THEN Container("ref", SecondBaseId)
             ELSE settings.perm)
AgainHeap ==
    [id \in (DOMAIN heap0 \ {0})
                \cup (IF settings.perm.tag = "ref" THEN {SecondBaseId} ELSE {}) |->
        IF id = SecondBaseId THEN heap[settings.perm.id] ELSE heap0[id]]
Again == MergeSettings(AgainHeap, AgainBase, localSettingsRecord, showAllowCommands)

\* C20: the call made again, with the returned configuration as the base and
\* the same overrides in the same order, returns as well, and returns a
\* configuration equal to the first.
C20_Idempotent ==
    Returned =>
        /\ ~Again.threw
        /\ Again.settings.fields = settings.fields
        /\ PermissionsView(Again.heap, Again.settings) = PermissionsView(heap, settings)

\* The projects among the first n whose local settings file main found and
\* parsed, in registry order.
RECURSIVE FoundUpTo(_)
FoundUpTo(n) ==
    IF n = 0 THEN <<>>
    ELSE IF localSettingsFiles[n].status = "ok"
    THEN Append(FoundUpTo(n - 1), n)
    ELSE FoundUpTo(n - 1)

\* The arguments the library's mergeSettings is given for the same run: the
\* parsed global settings as the base and, in registry order, the found local
\* settings under their paths, each with objects of its own.
LibRecord(n) ==
    [i \in 1..Len(FoundUpTo(n)) |->
        [path |-> LocalSettingsPath(FoundUpTo(n)[i]),
         settings |-> SettingsOf(localSettingsFiles[FoundUpTo(n)[i]].doc, FoundUpTo(n)[i])]]
LibHeap(n) ==
    LET found == {FoundUpTo(n)[i] : i \in 1..Len(FoundUpTo(n))}
        withObject == {j \in found : localSettingsFiles[j].doc.tag = "ref"}
                          \cup (IF settingsFile0.doc.tag = "ref" THEN {0} ELSE {})
    IN  [id \in withObject |->
            IF id = 0 THEN settingsFile0.doc.obj ELSE localSettingsFiles[id].doc.obj]
Lib(n) ==
    MergeSettings(LibHeap(n), SettingsOf(settingsFile0.doc, 0), LibRecord(n),
                  showAllowCommands)

\* C21: while main goes through the projects and after it, the settings it
\* holds are what the library's mergeSettings returns for the same base and
\* the local settings found so far, in the same order, and the lines printed
\* are the library's audit trail; main's merge throws exactly when the
\* library's call does.
C21_CliAsLibrary ==
    /\ (cliPc \in {"projects", "return", "exit"} /\ thrown \in {"none", "write"}) =>
          /\ ~Lib(idx).threw
          /\ Lib(idx).settings.fields = settings.fields
          /\ PermissionsView(Lib(idx).heap, Lib(idx).settings) = PermissionsView(heap, settings)
          /\ stdout = Lib(idx).lines
    /\ thrown = "TypeError" => Lib(idx).threw

\* C21 witness: the global settings have "allow" and "deny" lists, both
\* projects have local settings with "allow" lists, the flag is on; main has
\* written the merged settings and printed the lines of both projects.
C21_Witness ==
    /\ cliPc = "exit"
    /\ thrown = "none"
    /\ showAllowCommands
    /\ Projects = 2
    /\ settingsFile0.doc =
          Shape(NoFields, "ref", Mapping(StrArray(<<TextA, TextA>>), StrArray(<<TextB>>)))
    /\ localSettingsFiles[1].doc =
          Shape(NoFields, "ref", Mapping(StrArray(<<TextB, TextAB>>), Undefined))
    /\ localSettingsFiles[2].doc = localSettingsFiles[1].doc
    /\ Len(stdout) = 4
    /\ settingsFile.doc =
          Shape(NoFields, "ref",
                Mapping(StrArray(<<TextA, TextAB, TextB>>), StrArray(<<TextB>>)))

====
